---- MODULE Spec2Model ----
(***************************************************************************)
(* A model of velociraptor/autoplotter/plot.py: the plotting functions     *)
(* scatter_x_against_y, histogram_x_against_y, mass_function, and the      *)
(* axes helpers decorate_axes and set_labels.                               *)
(*                                                                         *)
(* Representation.                                                         *)
(*  - A Python string is a sequence of tokens; the token " " is one space  *)
(*    character and every other token is a run of non-space characters     *)
(*    (a word is always written as one token).                             *)
(*  - An axes-fraction coordinate is an integer number of hundredths       *)
(*    (0.05 is 5, 0.5 is 50, 0.95 is 95).                                  *)
(*  - A catalogue scalar (z, a) is an integer number of ten-thousandths;   *)
(*    a value formatted with 2.3f is an integer number of thousandths.     *)
(*  - A figure/axes pair made by plt.subplots() is one record of figs; its *)
(*    position in figs is its identity.                                    *)
(***************************************************************************)
EXTENDS Integers, Sequences, FiniteSets, TLC

VARIABLES figs, pc, frame, last, ncalls

vars == <<figs, pc, frame, last, ncalls>>

(***************************************************************************)
(* Bounds of the model.                                                    *)
(***************************************************************************)
MaxCalls == 3
MaxDecorations == 1
MaxPoints == 2

(***************************************************************************)
(* Strings.                                                                *)
(***************************************************************************)
Str(w) == <<w>>

Words2(v, h) == <<v, " ", h>>

Words3(a, b, c) == <<a, " ", b, " ", c>>

RECURSIVE split(_)
\* str.split(" "): the parts between single spaces; never an empty list.
split(s) ==
    IF s = <<>> THEN << <<>> >>
    ELSE LET rest == split(Tail(s))
         IN  IF Head(s) = " "
             THEN << <<>> >> \o rest
             ELSE << <<Head(s)>> \o rest[1] >> \o Tail(rest)

\* "w in s" for a word w: the substring test, at token granularity.
contains(s, w) == \E i \in 1..Len(s) : s[i] = w

\* format(v, "2.3f"): round to three decimals (ties are never drawn).
format_2_3f(v) == (v + 5) \div 10

(***************************************************************************)
(* Values of the program.                                                  *)
(***************************************************************************)
\* Python's None for the comment argument, and a comment string.
None == [none |-> TRUE, str |-> <<>>]

Comment(s) == [none |-> FALSE, str |-> s]

\* A unyt array: its name, its units and its values.
NoArray == [name |-> "", units |-> "", value |-> <<>>]

NoLine == [centers |-> <<>>, values |-> <<>>, units |-> "", error |-> <<>>]

NoLabel == [name |-> "", units |-> ""]

NoDrawn == [type |-> "none", a |-> <<>>, b |-> <<>>, mesh |-> <<>>, err |-> <<>>]

NoArgs == [x |-> NoArray, y |-> NoArray, x_bins |-> <<>>, y_bins |-> <<>>,
           line |-> NoLine]

\* Exceptions: the type and the message.
NoExc == [type |-> "none", msg |-> <<>>]

UnboundLocalError(var) ==
    [type |-> "UnboundLocalError",
     msg |-> <<"local variable '", var, "' referenced before assignment">>]

UnknownLocation(loc) ==
    [type |-> "AttributeError",
     msg |-> <<"Unknown location string ">> \o loc \o <<". Choose e.g. lower right">>]

\* matplotlib rejecting a horizontal alignment it does not know.
BadAlignment ==
    [type |-> "ValueError", msg |-> <<"Horizontal alignment must be one of">>]

\* np.histogram2d rejecting x and y of different lengths.
BadLengths ==
    [type |-> "ValueError", msg |-> <<"x and y must have the same length.">>]

(***************************************************************************)
(* decorate_axes.                                                          *)
(***************************************************************************)
\* The text f"$z={catalogue.z:2.3f}$\n$a={catalogue.a:2.3f}$".
redshift_label(catalogue) ==
    [kind |-> "redshift", z |-> format_2_3f(catalogue.z),
     a |-> format_2_3f(catalogue.a), str |-> <<>>]

\* A text that is a plain string.
str_label(s) == [kind |-> "str", z |-> 0, a |-> 0, str |-> s]

\* d[k] = v on an insertion-ordered dict, kept as a sequence of <<key, value>>.
dict_set(d, k, v) ==
    IF \E i \in 1..Len(d) : d[i][1] = k
    THEN [i \in 1..Len(d) |-> IF d[i][1] = k THEN <<k, v>> ELSE d[i]]
    ELSE Append(d, <<k, v>>)

label_switch(redshift_loc, comment_loc, catalogue) ==
    dict_set(dict_set(<<>>, redshift_loc, redshift_label(catalogue)),
             comment_loc, str_label(comment_loc))

markerfirst(legend_loc) == ~contains(legend_loc, "right")

\* The loop's local variables; bound holds the names assigned so far.
NoLocals == [va |-> <<>>, ha |-> <<>>, x |-> 0, y |-> 0, bound |-> {}]

\* A faulty variant of parse_loc: the two words unpacked in the other order.
parse_loc_swapped(loc, env) ==
    LET parts == split(loc)
    IN  IF Len(parts) = 2
        THEN [env EXCEPT !.ha = parts[1], !.va = parts[2],
                         !.bound = @ \cup {"va", "ha"}]
        ELSE IF loc = Str("right")
        THEN [env EXCEPT !.ha = Str("right"), !.va = Str("center"),
                         !.bound = @ \cup {"va", "ha"}]
        ELSE IF loc = Str("center")
        THEN [env EXCEPT !.ha = Str("center"), !.va = Str("center"),
                         !.bound = @ \cup {"va", "ha"}]
        ELSE env

\* try: va, ha = loc.split(" ") / except ValueError: ...
parse_loc(loc, env) ==
    LET parts == split(loc)
    IN  IF Len(parts) = 2
        THEN [env EXCEPT !.va = parts[1], !.ha = parts[2],
                         !.bound = @ \cup {"va", "ha"}]
        ELSE IF loc = Str("right")
        THEN [env EXCEPT !.ha = Str("right"), !.va = Str("center"),
                         !.bound = @ \cup {"va", "ha"}]
        ELSE IF loc = Str("center")
        THEN [env EXCEPT !.ha = Str("center"), !.va = Str("center"),
                         !.bound = @ \cup {"va", "ha"}]
        ELSE env

\* if va == "lower": ... else: raise AttributeError(...)
vertical(loc, env) ==
    IF "va" \notin env.bound
    THEN [env |-> env, exc |-> UnboundLocalError("va")]
    ELSE IF env.va = Str("lower")
    THEN [env |-> [env EXCEPT !.y = 5, !.va = Str("bottom"), !.bound = @ \cup {"y"}],
          exc |-> NoExc]
    ELSE IF env.va = Str("upper")
    THEN [env |-> [env EXCEPT !.y = 95, !.va = Str("top"), !.bound = @ \cup {"y"}],
          exc |-> NoExc]
    ELSE IF env.va = Str("center")
    THEN [env |-> [env EXCEPT !.y = 50, !.bound = @ \cup {"y"}], exc |-> NoExc]
    ELSE [env |-> env, exc |-> UnknownLocation(loc)]

\* if ha == "left": ... (no else branch)
horizontal(env) ==
    IF env.ha = Str("left")
    THEN [env EXCEPT !.x = 5, !.bound = @ \cup {"x"}]
    ELSE IF env.ha = Str("right")
    THEN [env EXCEPT !.x = 95, !.bound = @ \cup {"x"}]
    ELSE IF env.ha = Str("center")
    THEN [env EXCEPT !.x = 50, !.bound = @ \cup {"x"}]
    ELSE env

\* ax.text(x, y, label, ha=ha, va=va, transform=ax.transAxes, multialignment=ha);
\* validates: whether the library checks the alignment when the text is made.
\* loc records the label_switch key whose iteration placed the text.
ax_text(loc, label, env, validates) ==
    IF "x" \notin env.bound
    THEN [text |-> <<>>, exc |-> UnboundLocalError("x")]
    ELSE IF validates /\ env.ha \notin {Str("left"), Str("right"), Str("center")}
    THEN [text |-> <<>>, exc |-> BadAlignment]
    ELSE [text |-> << [x |-> env.x, y |-> env.y, s |-> label, ha |-> env.ha,
                       va |-> env.va, multialignment |-> env.ha, loc |-> loc] >>,
          exc |-> NoExc]

\* One iteration of "for loc, label in label_switch.items()".
loop_body(loc, label, env, validates) ==
    LET v == vertical(loc, parse_loc(loc, env))
    IN  IF v.exc.type # "none"
        THEN [env |-> v.env, text |-> <<>>, exc |-> v.exc]
        ELSE LET e == horizontal(v.env)
                 t == ax_text(loc, label, e, validates)
             IN  [env |-> e, text |-> t.text, exc |-> t.exc]

RECURSIVE run_loop(_, _, _, _)
\* The loop over the items, stopping at the first exception.
run_loop(items, i, st, validates) ==
    IF i > Len(items) \/ st.exc.type # "none"
    THEN st
    ELSE LET r == loop_body(items[i][1], items[i][2], st.env, validates)
         IN  run_loop(items, i + 1,
                      [env |-> r.env, texts |-> st.texts \o r.text, exc |-> r.exc],
                      validates)

\* The texts decorate_axes places and the exception it ends with.
decorate_texts(redshift_loc, comment_loc, catalogue, validates) ==
    run_loop(label_switch(redshift_loc, comment_loc, catalogue), 1,
             [env |-> NoLocals, texts |-> <<>>, exc |-> NoExc], validates)

(***************************************************************************)
(* Labels (velociraptor.tools).                                            *)
(***************************************************************************)
\* tools.get_full_label(x): the array's name with its units.
get_full_label(x) == [name |-> x.name, sub |-> "", units |-> x.units]

\* tools.get_mass_function_label(mass_function_sub_label, mass_function_units).
get_mass_function_label(mass_function_sub_label, mass_function_units) ==
    [name |-> "dn/dlogM", sub |-> mass_function_sub_label,
     units |-> mass_function_units]

(***************************************************************************)
(* Figures.                                                                *)
(***************************************************************************)
\* A figure/axes pair as plt.subplots() returns it.  creator and args record
\* the call that made the pair and its arguments (bookkeeping).
BlankFigure ==
    [creator |-> "", args |-> NoArgs, drawn |-> NoDrawn,
     xlabel |-> NoLabel, ylabel |-> NoLabel,
     colorbar |-> <<>>, legend |-> <<>>, texts |-> <<>>]

\* A faulty variant of subplots: the current figure is reused when there is one.
subplots_gcf(fs) == IF fs = <<>> THEN <<BlankFigure>> ELSE fs

\* fig, ax = plt.subplots(): the figures after the call; the new pair is the last.
subplots(fs) == Append(fs, BlankFigure)

created_by(fig, creator, args) == [fig EXCEPT !.creator = creator, !.args = args]

\* set_labels(ax, x, y)
set_labels(ax, x, y) ==
    [ax EXCEPT !.xlabel = get_full_label(x), !.ylabel = get_full_label(y)]

\* ax.scatter(x.value, y.value, ...)
ax_scatter(ax, xv, yv) ==
    [ax EXCEPT !.drawn = [type |-> "scatter", a |-> xv, b |-> yv,
                          mesh |-> <<>>, err |-> <<>>]]

\* ax.scatter rejecting x and y of different sizes.
BadSizes == [type |-> "ValueError", msg |-> <<"x and y must be the same size">>]

\* ax.pcolormesh(X, Y, C, ...): C[j][i] colours the cell of column i and row j.
ax_pcolormesh(ax, X, Y, C) ==
    [ax EXCEPT !.drawn = [type |-> "pcolormesh", a |-> X, b |-> Y,
                          mesh |-> C, err |-> <<>>]]

\* fig.colorbar(im, ax=ax, label="Number of haloes", pad=0.0)
fig_colorbar(ax) ==
    [ax EXCEPT !.colorbar = << [label |-> "Number of haloes", pad |-> 0] >>]

\* ax.errorbar(centers, mass_function, error)
ax_errorbar(ax, centers, values, error) ==
    [ax EXCEPT !.drawn = [type |-> "errorbar", a |-> centers, b |-> values,
                          mesh |-> <<>>, err |-> error]]

\* ax.legend(loc=legend_loc, markerfirst=markerfirst) replaces the axes' legend.
ax_legend(ax, legend_loc) ==
    [ax EXCEPT !.legend = << [loc |-> legend_loc,
                             markerfirst |-> markerfirst(legend_loc)] >>]

(***************************************************************************)
(* np.histogram2d.                                                         *)
(***************************************************************************)
\* The bin of v among the edges: bins are half-open, the last one is closed;
\* 0 when v lies outside every bin.
bin_index(v, edges) ==
    LET n == Len(edges) - 1
    IN  IF v < edges[1] \/ v > edges[n + 1] THEN 0
        ELSE IF v = edges[n + 1] THEN n
        ELSE CHOOSE i \in 1..n : edges[i] <= v /\ v < edges[i + 1]

RECURSIVE accumulate(_, _, _, _, _, _)
\* The counts after the points k..Len(xv) have been added to H.
accumulate(H, xv, yv, x_bins, y_bins, k) ==
    IF k > Len(xv) THEN H
    ELSE LET i == bin_index(xv[k], x_bins)
             j == bin_index(yv[k], y_bins)
             H1 == IF i > 0 /\ j > 0 THEN [H EXCEPT ![i][j] = @ + 1] ELSE H
         IN  accumulate(H1, xv, yv, x_bins, y_bins, k + 1)

\* H of np.histogram2d(x, y, bins=[x_bins, y_bins]): H[i][j] over x-bin i, y-bin j.
histogram2d(xv, yv, x_bins, y_bins) ==
    accumulate([i \in 1..(Len(x_bins) - 1) |-> [j \in 1..(Len(y_bins) - 1) |-> 0]],
               xv, yv, x_bins, y_bins, 1)

\* H.T
transpose(H) ==
    IF H = <<>> THEN <<>>
    ELSE [j \in 1..Len(H[1]) |-> [i \in 1..Len(H) |-> H[i][j]]]

\* A faulty variant of mesh_array: H handed over without the transposition.
mesh_array_untransposed(H) == H

\* The array argument histogram_x_against_y hands to pcolormesh.
mesh_array(H) == transpose(H)

(***************************************************************************)
(* State.                                                                  *)
(*   figs    the figure/axes pairs created so far                          *)
(*   pc      "idle" between calls, else the line histogram_x_against_y is  *)
(*           about to run                                                  *)
(*   frame   the locals of the running histogram_x_against_y call          *)
(*   last    the call that ended last: its name, arguments, the axes it    *)
(*           returned or was passed, its exception, the texts it placed    *)
(*   ncalls  the number of calls started since the initial state           *)
(***************************************************************************)
NoFrame ==
    [fig |-> 0, x |-> NoArray, y |-> NoArray, x_bins |-> <<>>, y_bins |-> <<>>,
     H |-> <<>>, steps |-> <<>>]

NoCall ==
    [op |-> "", ax |-> 0, exc |-> NoExc, placed |-> <<>>, steps |-> <<>>,
     args |-> NoArgs]

plot_args(x, y, x_bins, y_bins, line) ==
    [x |-> x, y |-> y, x_bins |-> x_bins, y_bins |-> y_bins, line |-> line]

(***************************************************************************)
(* scatter_x_against_y(x, y)                                               *)
(***************************************************************************)
scatter_x_against_y(Xs, Ys, cap) ==
    /\ pc = "idle"
    /\ ncalls < cap
    /\ \E x \in Xs, y \in Ys :
         LET fs   == subplots(figs)
             id   == Len(fs)
             args == plot_args(x, y, <<>>, <<>>, NoLine)
             ok   == Len(x.value) = Len(y.value)
             ax   == created_by(fs[id], "scatter_x_against_y", args)
         IN  /\ figs' = [fs EXCEPT ![id] =
                            IF ok THEN set_labels(ax_scatter(ax, x.value, y.value), x, y)
                            ELSE ax]
             /\ last' = [op |-> "scatter_x_against_y", ax |-> IF ok THEN id ELSE 0,
                         exc |-> IF ok THEN NoExc ELSE BadSizes,
                         placed |-> <<>>, steps |-> <<>>, args |-> args]
    /\ ncalls' = ncalls + 1
    /\ UNCHANGED <<pc, frame>>

(***************************************************************************)
(* histogram_x_against_y(x, y, x_bins, y_bins), line by line               *)
(***************************************************************************)
\* fig, ax = plt.subplots()
hist_subplots(Xs, Ys, XBs, YBs, cap) ==
    /\ pc = "idle"
    /\ ncalls < cap
    /\ \E x \in Xs, y \in Ys, x_bins \in XBs, y_bins \in YBs :
         LET fs == subplots(figs)
             id == Len(fs)
         IN  /\ figs' = [fs EXCEPT ![id] =
                            created_by(@, "histogram_x_against_y",
                                       plot_args(x, y, x_bins, y_bins, NoLine))]
             /\ frame' = [fig |-> id, x |-> x, y |-> y, x_bins |-> x_bins,
                          y_bins |-> y_bins, H |-> <<>>, steps |-> <<"subplots">>]
    /\ pc' = "L47"
    /\ ncalls' = ncalls + 1
    /\ UNCHANGED last

\* H, x_bins, y_bins = np.histogram2d(x=x, y=y, bins=[x_bins, y_bins])
hist_histogram2d ==
    /\ pc = "L47"
    /\ IF Len(frame.x.value) = Len(frame.y.value)
       THEN /\ frame' = [frame EXCEPT
                           !.H = histogram2d(frame.x.value, frame.y.value,
                                             frame.x_bins, frame.y_bins),
                           !.steps = Append(@, "histogram2d")]
            /\ pc' = "L49"
            /\ UNCHANGED last
       ELSE /\ last' = [op |-> "histogram_x_against_y", ax |-> 0, exc |-> BadLengths,
                        placed |-> <<>>, steps |-> frame.steps,
                        args |-> figs[frame.fig].args]
            /\ frame' = NoFrame
            /\ pc' = "idle"
    /\ UNCHANGED <<figs, ncalls>>

\* A faulty variant of hist_pcolormesh: the labels follow the mesh directly,
\* the colour bar is left out.
hist_pcolormesh_then_labels ==
    /\ pc = "L49"
    /\ figs' = [figs EXCEPT ![frame.fig] =
                   ax_pcolormesh(@, frame.x_bins, frame.y_bins, mesh_array(frame.H))]
    /\ frame' = [frame EXCEPT !.steps = Append(@, "pcolormesh")]
    /\ pc' = "L53"
    /\ UNCHANGED <<last, ncalls>>

\* im = ax.pcolormesh(x_bins, y_bins, H.T, norm=LogNorm(), zorder=-100)
hist_pcolormesh ==
    /\ pc = "L49"
    /\ figs' = [figs EXCEPT ![frame.fig] =
                   ax_pcolormesh(@, frame.x_bins, frame.y_bins, mesh_array(frame.H))]
    /\ frame' = [frame EXCEPT !.steps = Append(@, "pcolormesh")]
    /\ pc' = "L51"
    /\ UNCHANGED <<last, ncalls>>

\* fig.colorbar(im, ax=ax, label="Number of haloes", pad=0.0)
hist_colorbar ==
    /\ pc = "L51"
    /\ figs' = [figs EXCEPT ![frame.fig] = fig_colorbar(@)]
    /\ frame' = [frame EXCEPT !.steps = Append(@, "colorbar")]
    /\ pc' = "L53"
    /\ UNCHANGED <<last, ncalls>>

\* set_labels(ax=ax, x=x, y=y)
hist_set_labels ==
    /\ pc = "L53"
    /\ figs' = [figs EXCEPT ![frame.fig] = set_labels(@, frame.x, frame.y)]
    /\ frame' = [frame EXCEPT !.steps = Append(@, "set_labels")]
    /\ pc' = "L55"
    /\ UNCHANGED <<last, ncalls>>

\* return fig, ax
hist_return ==
    /\ pc = "L55"
    /\ last' = [op |-> "histogram_x_against_y", ax |-> frame.fig, exc |-> NoExc,
                placed |-> <<>>, steps |-> Append(frame.steps, "return"),
                args |-> figs[frame.fig].args]
    /\ frame' = NoFrame
    /\ pc' = "idle"
    /\ UNCHANGED <<figs, ncalls>>

(***************************************************************************)
(* mass_function(x, x_bins, mass_function)                                 *)
(***************************************************************************)
\* VelociraptorLine.output: the stored centres, values (with units) and errors.
output(line) == <<line.centers, line.values, line.error>>

mass_function_figure(ax, x, x_bins, line) ==
    LET out == output(line)
        drawn == ax_errorbar(ax, out[1], out[2], out[3])
    IN  [drawn EXCEPT !.xlabel = get_full_label(x),
                      !.ylabel = get_mass_function_label("{}", line.units)]

mass_function(Xs, XBs, Lines, cap) ==
    /\ pc = "idle"
    /\ ncalls < cap
    /\ \E x \in Xs, x_bins \in XBs, line \in Lines :
         LET fs   == subplots(figs)
             id   == Len(fs)
             args == plot_args(x, NoArray, x_bins, <<>>, line)
         IN  /\ figs' = [fs EXCEPT ![id] =
                            mass_function_figure(created_by(@, "mass_function", args),
                                                 x, x_bins, line)]
             /\ last' = [op |-> "mass_function", ax |-> id, exc |-> NoExc,
                         placed |-> <<>>, steps |-> <<>>, args |-> args]
    /\ ncalls' = ncalls + 1
    /\ UNCHANGED <<pc, frame>>

(***************************************************************************)
(* decorate_axes(ax, catalogue, comment, legend_loc, redshift_loc,         *)
(*               comment_loc)                                              *)
(***************************************************************************)
decorate_axes(Locs, Legends, Cmts, Cats, cap) ==
    /\ pc = "idle"
    /\ ncalls < cap
    /\ \E ax \in 1..Len(figs), catalogue \in Cats, comment \in Cmts,
          legend_loc \in Legends, redshift_loc \in Locs, comment_loc \in Locs :
         \E r \in {decorate_texts(redshift_loc, comment_loc, catalogue, validates) :
                      validates \in BOOLEAN} :
             /\ figs' = [figs EXCEPT ![ax] =
                            [ax_legend(@, legend_loc) EXCEPT !.texts = @ \o r.texts]]
             /\ last' = [op |-> "decorate_axes", ax |-> ax, exc |-> r.exc,
                         placed |-> r.texts, steps |-> <<>>,
                         args |-> [catalogue |-> catalogue, comment |-> comment,
                                   legend_loc |-> legend_loc,
                                   redshift_loc |-> redshift_loc,
                                   comment_loc |-> comment_loc]]
    /\ ncalls' = ncalls + 1
    /\ UNCHANGED <<pc, frame>>

(***************************************************************************)
(* set_labels(ax, x, y), called on an existing axes                        *)
(***************************************************************************)
call_set_labels(Xs, Ys, cap) ==
    /\ pc = "idle"
    /\ ncalls < cap
    /\ \E ax \in 1..Len(figs), x \in Xs, y \in Ys :
         /\ figs' = [figs EXCEPT ![ax] = set_labels(@, x, y)]
         /\ last' = [op |-> "set_labels", ax |-> ax, exc |-> NoExc,
                     placed |-> <<>>, steps |-> <<>>,
                     args |-> plot_args(x, y, <<>>, <<>>, NoLine)]
    /\ ncalls' = ncalls + 1
    /\ UNCHANGED <<pc, frame>>

(***************************************************************************)
(* Inputs.                                                                 *)
(***************************************************************************)
VerticalWords == {"lower", "upper", "center"}

HorizontalWords == {"left", "right", "center"}

\* '<lower|upper|center> <left|right|center>', 'right' and 'center'.
RecognizedLocs ==
    {Words2(v, h) : v \in VerticalWords, h \in HorizontalWords}
        \cup {Str("right"), Str("center")}

\* Other single words, three words, a bad second word, a bad first word.
UnrecognizedLocs ==
    {Str("left"), Str("best"), Words3("upper", "left", "corner"),
     Words2("lower", "middle"), Words2("top", "left")}

AllLocs == RecognizedLocs \cup UnrecognizedLocs

LegendLocs == {Words2("upper", "left"), Words2("upper", "right")}

Comments == {None, Comment(<<"z=0", " ", "snapshot">>)}

\* z = 0, a = 1.
CatalogueNow == [z |-> 0, a |-> 10000]

\* z = 1.0006, a = 0.4998.
CatalogueThen == [z |-> 10006, a |-> 4998]

QA == [name |-> "M200", units |-> "Msun", value |-> <<1, 3>>]

QB == [name |-> "R200", units |-> "kpc", value |-> <<0, 3>>]

QC == [name |-> "Vmax", units |-> "km/s", value |-> <<1>>]

BinsA == <<0, 2, 3>>

BinsB == <<0, 1, 2, 3>>

LineA == [centers |-> <<1, 2>>, values |-> <<2, 1>>, units |-> "Mpc^-3",
          error |-> <<1, 1>>]

SpecLocs == {Words2("lower", "right"), Words2("center", "left"), Str("best")}

\* Value sequences of at most n elements of V.
SeqsUpTo(V, n) == UNION {[1..k -> V] : k \in 0..n}

HistValues == {0, 1, 3}

HistXs == {[name |-> "M200", units |-> "Msun", value |-> v] :
              v \in SeqsUpTo(HistValues, MaxPoints)}

HistYs == {[name |-> "R200", units |-> "kpc", value |-> v] :
              v \in SeqsUpTo(HistValues, MaxPoints)}

HistBins == {<<0, 1, 3>>, <<1, 3>>, <<0, 1, 2, 3>>}

(***************************************************************************)
(* Specifications.                                                         *)
(***************************************************************************)
Init ==
    /\ figs = <<>>
    /\ pc = "idle"
    /\ frame = NoFrame
    /\ last = NoCall
    /\ ncalls = 0

\* Any sequence of calls of the five functions.
Next ==
    \/ scatter_x_against_y({QA, QB}, {QB, QC}, MaxCalls)
    \/ hist_subplots({QA}, {QB, QC}, {BinsA}, {BinsB}, MaxCalls)
    \/ hist_histogram2d
    \/ hist_pcolormesh
    \/ hist_colorbar
    \/ hist_set_labels
    \/ hist_return
    \/ mass_function({QA}, {BinsA, BinsB}, {LineA}, MaxCalls)
    \/ decorate_axes(SpecLocs, LegendLocs, {None}, {CatalogueNow}, MaxCalls)
    \/ call_set_labels({QA, QB}, {QB}, MaxCalls)

Spec == Init /\ [][Next]_vars

\* decorate_axes with every location string, on the axes of a scatter plot.
InitDecorate ==
    /\ figs = [subplots(<<>>) EXCEPT ![1] =
                 set_labels(ax_scatter(created_by(@, "scatter_x_against_y",
                                                  plot_args(QA, QB, <<>>, <<>>, NoLine)),
                                       QA.value, QB.value), QA, QB)]
    /\ pc = "idle"
    /\ frame = NoFrame
    /\ last = NoCall
    /\ ncalls = 0

NextDecorate ==
    decorate_axes(AllLocs, {Words2("upper", "right")}, Comments, {CatalogueThen},
                  MaxDecorations)

SpecDecorate == InitDecorate /\ [][NextDecorate]_vars

\* One call of histogram_x_against_y with every small input.
NextHist ==
    \/ hist_subplots(HistXs, HistYs, HistBins, HistBins, 1)
    \/ hist_histogram2d
    \/ hist_pcolormesh
    \/ hist_colorbar
    \/ hist_set_labels
    \/ hist_return

SpecHist == Init /\ [][NextHist]_vars

(***************************************************************************)
(* Properties.                                                             *)
(***************************************************************************)
\* The placement a location string asks for, read off its keywords.
VerticalKeyword(loc) == IF Len(loc) = 3 THEN loc[1] ELSE "center"

HorizontalKeyword(loc) == IF Len(loc) = 3 THEN loc[3] ELSE loc[1]

FractionOf(word) ==
    CASE word \in {"left", "lower"} -> 5
      [] word = "center" -> 50
      [] word \in {"right", "upper"} -> 95

VerticalAlignmentOf(word) ==
    CASE word = "lower" -> "bottom"
      [] word = "center" -> "center"
      [] word = "upper" -> "top"

PlacedAsAsked(t) ==
    /\ t.x = FractionOf(HorizontalKeyword(t.loc))
    /\ t.y = FractionOf(VerticalKeyword(t.loc))
    /\ t.ha = Str(HorizontalKeyword(t.loc))
    /\ t.multialignment = Str(HorizontalKeyword(t.loc))
    /\ t.va = Str(VerticalAlignmentOf(VerticalKeyword(t.loc)))

Placed(loc) == {k \in 1..Len(last.placed) : last.placed[k].loc = loc}

Decorated == last.op = "decorate_axes"

UnrecognizedArgs ==
    {last.args.redshift_loc, last.args.comment_loc} \ RecognizedLocs

\* C1: whenever redshift_loc or comment_loc is not a recognized location string,
\* decorate_axes ends with the AttributeError whose message names that string,
\* and it places no text for such a string.
C1_UnrecognizedRaisesDescriptive ==
    (Decorated /\ UnrecognizedArgs # {}) =>
        /\ \E loc \in UnrecognizedArgs : last.exc = UnknownLocation(loc)
        /\ \A loc \in UnrecognizedArgs : Placed(loc) = {}

\* C2: whenever redshift_loc and comment_loc are both recognized (equal or not),
\* decorate_axes returns normally and has placed, at redshift_loc, the text
\* giving z and a to three decimals.
C2_RedshiftTextPlaced ==
    (/\ Decorated
     /\ last.args.redshift_loc \in RecognizedLocs
     /\ last.args.comment_loc \in RecognizedLocs) =>
        /\ last.exc = NoExc
        /\ \E k \in Placed(last.args.redshift_loc) :
             /\ last.placed[k].s = redshift_label(last.args.catalogue)
             /\ PlacedAsAsked(last.placed[k])

\* The counts per bin of x_bins: what binning x with x_bins gives.
binned(xv, x_bins) ==
    [i \in 1..(Len(x_bins) - 1) |->
        Cardinality({k \in 1..Len(xv) : bin_index(xv[k], x_bins) = i})]

\* C3: two mass_function plots made from the same x and the same line object
\* but different x_bins show different data whenever binning x gives
\* different results for the two x_bins.
C3_DrawnDataFollowsBins ==
    \A f, g \in 1..Len(figs) :
        (/\ figs[f].creator = "mass_function"
         /\ figs[g].creator = "mass_function"
         /\ figs[f].args.x = figs[g].args.x
         /\ figs[f].args.line = figs[g].args.line
         /\ binned(figs[f].args.x.value, figs[f].args.x_bins)
              # binned(figs[g].args.x.value, figs[g].args.x_bins)) =>
            figs[f].drawn # figs[g].drawn

\* One step of a run: what it may do to the figures.
FrameStep ==
    LET n == Len(figs)
        OthersKept(ax) ==
            /\ Len(figs') = n
            /\ \A i \in 1..n : i # ax => figs'[i] = figs[i]
        Fresh ==
            /\ Len(figs') = n + 1
            /\ \A i \in 1..n : figs'[i] = figs[i]
    IN  IF pc # "idle"
        THEN /\ OthersKept(frame.fig)
             /\ (pc' = "idle" /\ last'.exc = NoExc) => last'.ax = frame.fig
        ELSE IF pc' # "idle"
        THEN Fresh /\ frame'.fig = n + 1
        ELSE IF last'.op \in {"decorate_axes", "set_labels"}
        THEN OthersKept(last'.ax)
        ELSE Fresh /\ (last'.exc = NoExc => last'.ax = n + 1)

\* Two plots made by the same function from the same arguments show the same.
SameArgsSameDrawing ==
    \A f, g \in 1..Len(figs) :
        (/\ figs[f].creator = figs[g].creator
         /\ figs[f].args = figs[g].args
         /\ figs[f].drawn.type # "none"
         /\ figs[g].drawn.type # "none") =>
            figs[f].drawn = figs[g].drawn

\* C4: every plotting call makes a fresh figure/axes pair and returns it, no
\* step changes a figure other than the one its call made or was passed, and
\* what a plotting call draws depends on its arguments alone.
C4_IndependentCalls == [][FrameStep]_vars /\ []SameArgsSameDrawing

\* C4 witness: set_labels has just relabelled the first of two existing figures.
C4_Witness ==
    /\ Len(figs) = 2
    /\ last.op = "set_labels"
    /\ last.ax = 1
    /\ figs[1].xlabel # figs[2].xlabel
    /\ figs[2].creator = "histogram_x_against_y"

HistSteps ==
    <<"subplots", "histogram2d", "pcolormesh", "colorbar", "set_labels", "return">>

\* C5: histogram_x_against_y computes the histogram before it plots the mesh,
\* attaches the colour bar after the mesh and sets the labels last, each once;
\* it returns the pair only after the x and the y label are set.
C5_HistogramStepsInOrder ==
    /\ pc = "L47" => /\ frame.steps = SubSeq(HistSteps, 1, 1)
                     /\ frame.H = <<>>
    /\ pc = "L49" => /\ frame.steps = SubSeq(HistSteps, 1, 2)
                     /\ frame.H # <<>>
                     /\ figs[frame.fig].drawn = NoDrawn
    /\ pc = "L51" => /\ frame.steps = SubSeq(HistSteps, 1, 3)
                     /\ figs[frame.fig].drawn.mesh = transpose(frame.H)
                     /\ figs[frame.fig].colorbar = <<>>
    /\ pc = "L53" => /\ frame.steps = SubSeq(HistSteps, 1, 4)
                     /\ figs[frame.fig].colorbar # <<>>
                     /\ figs[frame.fig].xlabel = NoLabel
                     /\ figs[frame.fig].ylabel = NoLabel
    /\ pc = "L55" => /\ frame.steps = SubSeq(HistSteps, 1, 5)
                     /\ figs[frame.fig].xlabel = get_full_label(frame.x)
                     /\ figs[frame.fig].ylabel = get_full_label(frame.y)
    /\ (last.op = "histogram_x_against_y" /\ last.exc = NoExc) =>
           /\ last.steps = HistSteps
           /\ figs[last.ax].drawn.type = "pcolormesh"
           /\ figs[last.ax].colorbar # <<>>
           /\ figs[last.ax].xlabel # NoLabel
           /\ figs[last.ax].ylabel # NoLabel

\* C5 witness: a histogram_x_against_y call has returned its figure.
C5_Witness ==
    /\ last.op = "histogram_x_against_y"
    /\ last.exc = NoExc
    /\ last.ax = 2
    /\ figs[2].ylabel = get_full_label(QB)

\* C6: a text placed for a recognized location string sits where the string's
\* keywords say, with the alignments they say ('right' as 'center right',
\* 'center' as 'center center'); a recognized redshift_loc gets its text, and
\* so does comment_loc when both are recognized.
C6_PlacementByKeywords ==
    Decorated =>
        /\ \A k \in 1..Len(last.placed) :
             last.placed[k].loc \in RecognizedLocs => PlacedAsAsked(last.placed[k])
        /\ last.args.redshift_loc \in RecognizedLocs =>
             /\ Placed(last.args.redshift_loc) # {}
             /\ last.args.comment_loc \in RecognizedLocs =>
                  /\ last.exc = NoExc
                  /\ Placed(last.args.comment_loc) # {}
        /\ \A k \in 1..Len(last.placed) :
             \E m \in 1..Len(figs[last.ax].texts) :
                 figs[last.ax].texts[m] = last.placed[k]

\* C6 witness: texts placed for the single words 'right' and 'center'.
C6_Witness ==
    /\ Decorated
    /\ last.args.redshift_loc = Str("right")
    /\ last.args.comment_loc = Str("center")
    /\ Len(last.placed) = 2
    /\ last.placed[1].x = 95
    /\ last.placed[2].x = 50

\* v lies in bin i of the edges (half-open bins, the last one closed).
InBin(v, edges, i) ==
    /\ edges[i] <= v
    /\ \/ v < edges[i + 1]
       \/ i = Len(edges) - 1 /\ v = edges[i + 1]

\* C7: the mesh cell over x-bin i and y-bin j shows the number of points with
\* x in x-bin i and y in y-bin j.
C7_MeshCellCounts ==
    \A f \in 1..Len(figs) :
        figs[f].drawn.type = "pcolormesh" =>
            LET d  == figs[f].drawn
                xs == figs[f].args.x.value
                ys == figs[f].args.y.value
                xb == figs[f].args.x_bins
                yb == figs[f].args.y_bins
            IN  /\ d.a = xb
                /\ d.b = yb
                /\ Len(d.mesh) = Len(yb) - 1
                /\ \A j \in 1..Len(d.mesh) : Len(d.mesh[j]) = Len(xb) - 1
                /\ \A i \in 1..(Len(xb) - 1), j \in 1..(Len(yb) - 1) :
                     d.mesh[j][i] =
                        Cardinality({k \in 1..Len(xs) :
                                        InBin(xs[k], xb, i) /\ InBin(ys[k], yb, j)})

\* C7 witness: a mesh of two columns and one row whose second cell holds two points.
C7_Witness ==
    /\ Len(figs) = 1
    /\ figs[1].drawn.type = "pcolormesh"
    /\ figs[1].args.x.value # figs[1].args.y.value
    /\ figs[1].drawn.mesh = << <<0, 2>> >>

\* C8: after decorate_axes returns, a comment string is the text at comment_loc,
\* and with comment None the location string is not drawn in its place.
C8_CommentTextIsComment ==
    (Decorated /\ last.exc = NoExc) =>
        IF last.args.comment.none
        THEN \A k \in 1..Len(last.placed) :
                 last.placed[k].s # str_label(last.args.comment_loc)
        ELSE \E k \in Placed(last.args.comment_loc) :
                 last.placed[k].s = str_label(last.args.comment.str)

====
